---- MODULE Spec2Model ----
(***************************************************************************)
(* PyLaRs: permutation_test, bootstrap, bootstrap_vec (resampling engine   *)
(* over a rayon fan-out), MathUtil::quantile and binom.                    *)
(*                                                                         *)
(* f64 values are modelled as extended rationals: a finite value is an     *)
(* exact fraction with a sign (so that +0.0 and -0.0 are distinct), and    *)
(* there are the two infinities and NaN.  Arithmetic follows IEEE-754 on   *)
(* the special values; rounding of finite results is not modelled.         *)
(***************************************************************************)
EXTENDS Integers, Sequences, FiniteSets, TLC

\* ------------------------------------------------------------------ f64

Abs(i) == IF i < 0 THEN -i ELSE i

RECURSIVE GCD(_, _)
GCD(a, b) == IF b = 0 THEN a ELSE GCD(b, a % b)

\* a finite f64: sign, numerator n >= 0 and denominator d > 0 in lowest terms
Fin(neg, n, d) ==
    LET g == GCD(n, d)
    IN  [k |-> "fin", neg |-> neg, n |-> n \div g, d |-> d \div g]

NaN == [k |-> "nan", neg |-> FALSE, n |-> 0, d |-> 0]

Inf(neg) == [k |-> "inf", neg |-> neg, n |-> 1, d |-> 0]

\* `x as f64` for an integer x
F(i) == Fin(i < 0, Abs(i), 1)

\* the fraction a/b, b > 0, as an f64 literal
Frac(a, b) == Fin(a < 0, Abs(a), b)

IsNaN(a) == a.k = "nan"

IsFinite(a) == a.k = "fin"

IsZero(a) == a.k = "fin" /\ a.n = 0

SNum(a) == IF a.neg THEN -a.n ELSE a.n

FNeg(a) == IF IsNaN(a) THEN NaN ELSE [a EXCEPT !.neg = ~a.neg]

FAdd(a, b) ==
    IF IsNaN(a) \/ IsNaN(b) THEN NaN
    ELSE IF a.k = "inf" /\ b.k = "inf"
         THEN IF a.neg = b.neg THEN a ELSE NaN
    ELSE IF a.k = "inf" THEN a
    ELSE IF b.k = "inf" THEN b
    ELSE LET s == SNum(a) * b.d + SNum(b) * a.d
         IN  IF s = 0
             THEN Fin(a.n = 0 /\ b.n = 0 /\ a.neg /\ b.neg, 0, 1)
             ELSE Fin(s < 0, Abs(s), a.d * b.d)

FSub(a, b) == FAdd(a, FNeg(b))

FMul(a, b) ==
    IF IsNaN(a) \/ IsNaN(b) THEN NaN
    ELSE IF (a.k = "inf" /\ IsZero(b)) \/ (IsZero(a) /\ b.k = "inf") THEN NaN
    ELSE IF a.k = "inf" \/ b.k = "inf" THEN Inf(a.neg # b.neg)
    ELSE Fin(a.neg # b.neg, a.n * b.n, a.d * b.d)

FDiv(a, b) ==
    IF IsNaN(a) \/ IsNaN(b) THEN NaN
    ELSE IF a.k = "inf"
         THEN IF b.k = "inf" THEN NaN ELSE Inf(a.neg # b.neg)
    ELSE IF b.k = "inf" THEN Fin(a.neg # b.neg, 0, 1)
    ELSE IF b.n = 0
         THEN IF a.n = 0 THEN NaN ELSE Inf(a.neg # b.neg)
    ELSE Fin(a.neg # b.neg, a.n * b.d, a.d * b.n)

\* -1, 0, 1 for two values neither of which is NaN (+0.0 and -0.0 are equal)
Cmp(a, b) ==
    IF a.k = "inf" /\ b.k = "inf"
    THEN IF a.neg = b.neg THEN 0 ELSE IF a.neg THEN -1 ELSE 1
    ELSE IF a.k = "inf" THEN IF a.neg THEN -1 ELSE 1
    ELSE IF b.k = "inf" THEN IF b.neg THEN 1 ELSE -1
    ELSE LET l == SNum(a) * b.d
             r == SNum(b) * a.d
         IN  IF l < r THEN -1 ELSE IF l > r THEN 1 ELSE 0

\* f64::partial_cmp
partial_cmp(a, b) ==
    IF IsNaN(a) \/ IsNaN(b) THEN "None"
    ELSE IF Cmp(a, b) < 0 THEN "Less"
    ELSE IF Cmp(a, b) > 0 THEN "Greater"
    ELSE "Equal"


FGt(a, b) == partial_cmp(a, b) = "Greater"

FEq(a, b) == partial_cmp(a, b) = "Equal"

FLe(a, b) == partial_cmp(a, b) \in {"Less", "Equal"}

\* f64::min: the other operand when one is NaN
FMin(a, b) ==
    IF IsNaN(a) THEN b
    ELSE IF IsNaN(b) THEN a
    ELSE IF Cmp(a, b) <= 0 THEN a ELSE b

\* f64::max
FMax(a, b) ==
    IF IsNaN(a) THEN b
    ELSE IF IsNaN(b) THEN a
    ELSE IF Cmp(a, b) >= 0 THEN a ELSE b

\* f64::floor
FFloor(a) ==
    IF a.k # "fin" THEN a
    ELSE IF a.neg
         THEN Fin(TRUE, (a.n + a.d - 1) \div a.d, 1)
         ELSE Fin(FALSE, a.n \div a.d, 1)

\* f64::fract: a - a.trunc(), with the sign of a
FFract(a) ==
    IF a.k # "fin" THEN NaN
    ELSE Fin(a.neg, a.n % a.d, a.d)

\* `a as usize`: saturating, NaN to 0
AsUsize(a) ==
    IF a.k = "fin" /\ ~a.neg THEN a.n \div a.d ELSE 0

\* Iterator::sum::<f64>() over a sequence of f64
RECURSIVE FSum(_)
FSum(s) == IF s = <<>> THEN F(0) ELSE FAdd(FSum(SubSeq(s, 1, Len(s) - 1)), s[Len(s)])

\* ------------------------------------------------------------ tools.rs

\* calculate_uplift(before, after)
calculate_uplift(before, after) == FDiv(FSub(after, before), before)

HasNaN(s) == \E i \in 1..Len(s) : IsNaN(s[i])

RECURSIVE InsertSorted(_, _)
InsertSorted(s, x) ==
    IF s = <<>> THEN <<x>>
    ELSE IF Cmp(s[Len(s)], x) <= 0 THEN Append(s, x)
    ELSE Append(InsertSorted(SubSeq(s, 1, Len(s) - 1), x), s[Len(s)])

\* sorted.par_sort_unstable_by(|a, b| a.partial_cmp(b).unwrap()) on a sequence
\* without NaN; elements that compare Equal are the same value up to the sign
\* of zero.
RECURSIVE SortF(_)
SortF(s) ==
    IF s = <<>> THEN <<>>
    ELSE InsertSorted(SortF(SubSeq(s, 1, Len(s) - 1)), s[Len(s)])

\* pos = quantile * n + m - 1.0 with m = 1.0 - quantile
QuantilePos(quantile, n) ==
    LET m == FSub(F(1), quantile)
    IN  FSub(FAdd(FMul(quantile, F(n)), m), F(1))

\* the interpolation of one quantile over the sorted copy
Interpolate(g, lo, hi) == FAdd(FMul(FSub(F(1), g), lo), FMul(g, hi))

\* the closure of quantile(): one quantile over the sorted copy;
\* "index" stands for the panic of sorted[j] out of range
QuantileOne(sorted, quantile) ==
    LET pos == QuantilePos(quantile, Len(sorted))
        j   == AsUsize(FMax(FFloor(pos), F(0)))
        g   == FFract(pos)
    IN  IF j + 1 < Len(sorted)
        THEN [panic |-> "", v |-> Interpolate(g, sorted[j + 1], sorted[j + 2])]
        ELSE IF j < Len(sorted)
        THEN [panic |-> "", v |-> sorted[j + 1]]
        ELSE [panic |-> "index", v |-> NaN]

\* MathUtil::quantile(&self, q): [panic, v]; the comparator's unwrap() panics
\* as soon as two elements are compared and one of them is NaN, which every
\* sort of two or more elements with a NaN among them does.
quantile(self, q) ==
    IF Len(self) >= 2 /\ HasNaN(self)
    THEN [panic |-> "unwrap", v |-> <<>>]
    ELSE LET sorted == SortF(self)
             one(i) == QuantileOne(sorted, q[i])
         IN  IF \E i \in 1..Len(q) : one(i).panic # ""
             THEN [panic |-> "index", v |-> <<>>]
             ELSE [panic |-> "", v |-> [i \in 1..Len(q) |-> one(i).v]]

\* -------------------------------------------------------- binom_coef.rs

\* fold(start, end): the loop multiplies once before it tests start > end
RECURSIVE fold(_, _)
fold(start, end) ==
    IF start + 1 > end THEN start ELSE start * fold(start + 1, end)

\* binom(n, k) for n >= k (n - k underflows u16 otherwise); the products are
\* integers below 2^53 and exact in f64
binom(n, k) ==
    IF n = k THEN F(1)
    ELSE IF k > n - k
         THEN FDiv(F(fold(k + 1, n)), F(fold(1, n - k)))
         ELSE FDiv(F(fold((n - k) + 1, n)), F(fold(1, k)))

\* ------------------------------------------------- inference aggregation

\* OneSidedP without the pseudocount in the denominator
OneSidedPNoPseudo(count, n) == FDiv(F(count + 1), F(n))

\* (count + 1) as f64 / (n_resamples + 1) as f64
OneSidedP(count, n) == FDiv(F(count + 1), F(n + 1))

\* TwoSidedP with max for min
TwoSidedPMax(p) == FMax(FSub(F(2), FMul(F(2), p)), FMul(p, F(2)))

\* (2.0 - 2.0 * p).min(p * 2.0)
TwoSidedP(p) == FMin(FSub(F(2), FMul(F(2), p)), FMul(p, F(2)))

\* if two_sided { p_value } else { p }
ReturnedP(p, ts) == IF ts THEN TwoSidedP(p) ELSE p

\* vec_diffs.iter().filter(|i| observed_diff > **i).count()
PermCount(diffs, observed) == Cardinality({i \in 1..Len(diffs) : FGt(observed, diffs[i])})

\* uplift_diffs.iter().filter(|&&i| i > 0.0).count()
BootCount(diffs) == Cardinality({i \in 1..Len(diffs) : FGt(diffs[i], F(0))})

\* left_q = (1.0 - confidence_level) / 2.0
LeftQ(c) == FDiv(FSub(F(1), c), F(2))

\* right_q = 1.0 - left_q
RightQ(c) == FSub(F(1), LeftQ(c))

\* ---------------------------------------------------- resample generators

Min(a, b) == IF a < b THEN a ELSE b

RECURSIVE BitXor(_, _)
BitXor(a, b) ==
    IF a = 0 THEN b
    ELSE IF b = 0 THEN a
    ELSE 2 * BitXor(a \div 2, b \div 2) + ((a + b) % 2)

\* 0x9e3779b97f4a7c15 in 16-bit limbs, least significant first
GOLDEN == <<31765, 32586, 31161, 40503>>

\* i.wrapping_mul(0x9e3779b97f4a7c15) for i < 2^15, in 16-bit limbs modulo 2^64
RECURSIVE MulLimbs(_, _, _)
MulLimbs(i, l, carry) ==
    IF l > Len(GOLDEN) THEN <<>>
    ELSE LET p == i * GOLDEN[l] + carry
         IN  <<p % 65536>> \o MulLimbs(i, l + 1, p \div 65536)

\* seed = i ^ i.wrapping_mul(0x9e3779b97f4a7c15), as four 16-bit limbs
Seed(i) ==
    LET m == MulLimbs(i, 1, 0)
    IN  <<BitXor(i, m[1]), m[2], m[3], m[4]>>

\* dist.sample(&mut rng) for dist = Uniform::new(0, len): the generator's next
\* output reduced into [0, len)
Sample(len, raw) == raw % len

\* get_unchecked(idx) on v: the element, or a read outside the allocation
InBounds(v, idx) == 0 <= idx /\ idx < Len(v)

get_unchecked(v, idx) == IF InBounds(v, idx) THEN F(v[idx + 1]) ELSE NaN

\* the sum of the elements of v the indices idxs select, in order
Gather(v, idxs) == FSum([j \in 1..Len(idxs) |-> get_unchecked(v, idxs[j])])

\* the unchecked accesses to array `name` (contents v) at idxs
Accesses(name, v, idxs) ==
    {[arr |-> name, len |-> Len(v), idx |-> idxs[j]] : j \in 1..Len(idxs)}

\* the task of bootstrap_vec: len_vec draws from dist over vec
BootVecTask(vec, rs) ==
    LET len_vec == Len(vec)
        idxs    == [j \in 1..len_vec |-> Sample(len_vec, rs[j])]
    IN  [val  |-> FDiv(Gather(vec, idxs), F(len_vec)),
         accs |-> Accesses("vec", vec, idxs),
         n1   |-> Len(idxs), n2 |-> 0,
         i1   |-> idxs, i2 |-> <<>>]

\* BootIdx without the extra draws for the larger group
BootIdxNoExtra(len_1, len_2, ind_, rs) ==
    LET min_len == Min(len_1, len_2)
    IN  IF ind_
        THEN [i1 |-> [j \in 1..min_len |-> Sample(len_1, rs[2 * j - 1])],
              i2 |-> [j \in 1..min_len |-> Sample(len_2, rs[2 * j])]]
        ELSE LET shared == [j \in 1..min_len |-> Sample(len_1, rs[j])]
             IN  [i1 |-> shared, i2 |-> shared]

\* the indices one bootstrap resample draws for group 1 (from dist_1) and for
\* group 2 (from dist_2, or the shared idx_1 when paired)
BootIdx(len_1, len_2, ind_, rs) ==
    LET min_len == Min(len_1, len_2)
    IN  IF ind_
        THEN [i1 |-> [j \in 1..min_len |-> Sample(len_1, rs[2 * j - 1])]
                     \o (IF len_1 > len_2
                         THEN [j \in 1..(len_1 - len_2) |->
                                  Sample(len_1, rs[2 * min_len + j])]
                         ELSE <<>>),
              i2 |-> [j \in 1..min_len |-> Sample(len_2, rs[2 * j])]
                     \o (IF len_1 < len_2
                         THEN [j \in 1..(len_2 - len_1) |->
                                  Sample(len_2, rs[2 * min_len + j])]
                         ELSE <<>>)]
        ELSE LET shared == [j \in 1..min_len |-> Sample(len_1, rs[j])]
             IN  [i1 |-> shared, i2 |-> shared]

\* the task of bootstrap, two arrays
Boot2Task(a, ind_, rs) ==
    LET ix == BootIdx(Len(a[1]), Len(a[2]), ind_, rs)
        mean_1 == FDiv(Gather(a[1], ix.i1), F(Len(a[1])))
        mean_2 == FDiv(Gather(a[2], ix.i2), F(Len(a[2])))
    IN  [val  |-> calculate_uplift(mean_1, mean_2),
         accs |-> Accesses("args[0]", a[1], ix.i1) \cup Accesses("args[1]", a[2], ix.i2),
         n1   |-> Len(ix.i1), n2 |-> Len(ix.i2),
         i1   |-> ix.i1, i2 |-> ix.i2]

\* the task of bootstrap, four arrays
Boot4Task(a, ind_, rs) ==
    LET ix == BootIdx(Len(a[1]), Len(a[3]), ind_, rs)
        mean_1 == FDiv(Gather(a[1], ix.i1), Gather(a[2], ix.i1))
        mean_2 == FDiv(Gather(a[3], ix.i2), Gather(a[4], ix.i2))
    IN  [val  |-> calculate_uplift(mean_1, mean_2),
         accs |-> Accesses("args[0]", a[1], ix.i1) \cup Accesses("args[1]", a[2], ix.i1)
                  \cup Accesses("args[2]", a[3], ix.i2) \cup Accesses("args[3]", a[4], ix.i2),
         n1   |-> Len(ix.i1), n2 |-> Len(ix.i2),
         i1   |-> ix.i1, i2 |-> ix.i2]

Swap(s, i, j) == [s EXCEPT ![i] = s[j], ![j] = s[i]]

\* ids.shuffle(&mut rng): for i in (1..len).rev() { swap(i, rng in 0..=i) };
\* `k` counts the draws made so far, positions are 0-based
RECURSIVE ShuffleFrom(_, _, _, _)
ShuffleFrom(ids, i, k, rs) ==
    IF i < 1 THEN ids
    ELSE ShuffleFrom(Swap(ids, i + 1, Sample(i + 1, rs[k + 1]) + 1), i - 1, k + 1, rs)

\* (0..len_comb).collect() shuffled
Shuffled(len_comb, rs) == ShuffleFrom([j \in 1..len_comb |-> j - 1], len_comb - 1, 0, rs)

\* the task of permutation_test, two arrays
Perm2Task(a, rs) ==
    LET len_a == Len(a[1])
        len_b == Len(a[2])
        combined == a[1] \o a[2]
        ids == Shuffled(Len(combined), rs)
        ia == SubSeq(ids, 1, len_a)
        ib == SubSeq(ids, len_a + 1, Len(ids))
        sum_a == Gather(combined, ia)
        sum_b == Gather(combined, ib)
    IN  [val  |-> FSub(FDiv(sum_b, F(len_b)), FDiv(sum_a, F(len_a))),
         accs |-> Accesses("combined", combined, ids),
         n1   |-> Len(ia), n2 |-> Len(ib),
         i1   |-> ia, i2 |-> ib]

\* the task of permutation_test, four arrays
Perm4Task(a, rs) ==
    LET len_a == Len(a[1])
        numerators == a[1] \o a[3]
        denominators == a[2] \o a[4]
        ids == Shuffled(Len(numerators), rs)
        ia == SubSeq(ids, 1, len_a)
        ib == SubSeq(ids, len_a + 1, Len(ids))
    IN  [val  |-> FSub(FDiv(Gather(numerators, ib), Gather(denominators, ib)),
                       FDiv(Gather(numerators, ia), Gather(denominators, ia))),
         accs |-> Accesses("numerators", numerators, ids)
                  \cup Accesses("denominators", denominators, ids),
         n1   |-> Len(ia), n2 |-> Len(ib),
         i1   |-> ia, i2 |-> ib]

\* the closure handed to map(), by entry point and arity
TaskBody(f, a, ind_, rs) ==
    IF f = "bootstrap_vec" THEN BootVecTask(a[1], rs)
    ELSE IF f = "bootstrap"
         THEN IF Len(a) = 2 THEN Boot2Task(a, ind_, rs) ELSE Boot4Task(a, ind_, rs)
    ELSE IF Len(a) = 2 THEN Perm2Task(a, rs) ELSE Perm4Task(a, rs)

\* ------------------------------------------- validation, observed statistics

\* iter().sum::<f64>() of a sample (an empty sum is a zero; every use of it
\* here divides a zero by a zero, whatever its sign)
SumOf(v) == FSum([j \in 1..Len(v) |-> F(v[j])])

\* iter().sum::<f64>() / len as f64
Mean(v) == FDiv(SumOf(v), F(Len(v)))

\* sum(numerator) / sum(denominator)
Ratio(num, den) == FDiv(SumOf(num), SumOf(den))

\* PermObserved with uplift as the plain ratio b / a
PermObservedRatio(stat_a, stat_b) ==
    [observed_diff |-> FSub(stat_b, stat_a),
     uplift        |-> FDiv(stat_b, stat_a)]

\* observed_diff = b - a; uplift = observed_diff / a
PermObserved(stat_a, stat_b) ==
    [observed_diff |-> FSub(stat_b, stat_a),
     uplift        |-> FDiv(FSub(stat_b, stat_a), stat_a)]

\* PermPairsOk with the check left out
PermPairsUnchecked(a) == TRUE

\* the length check of permutation_test's four-array arm
PermPairsOk(a) == ~(Len(a[1]) # Len(a[2]) \/ Len(a[3]) # Len(a[4]))

\* permutation_test up to the fan-out: [panic, obs]
PermEnter(a) ==
    IF Len(a) = 2
    THEN [panic |-> "", obs |-> PermObserved(Mean(a[1]), Mean(a[2]))]
    ELSE IF Len(a) = 4
    THEN IF ~PermPairsOk(a)
         THEN [panic |-> "length", obs |-> <<>>]
         ELSE [panic |-> "", obs |-> PermObserved(Ratio(a[1], a[2]), Ratio(a[3], a[4]))]
    ELSE [panic |-> "arity", obs |-> <<>>]

\* (mean_1, mean_2, uplift) of bootstrap
BootObserved(mean_1, mean_2) ==
    [mean_1 |-> mean_1, mean_2 |-> mean_2, uplift |-> calculate_uplift(mean_1, mean_2)]

\* Boot2LengthsOk with the check left out
Boot2LengthsUnchecked(a, ind_) == TRUE

\* the length check of bootstrap's two-array arm
Boot2LengthsOk(a, ind_) == ~(~ind_ /\ Len(a[1]) # Len(a[2]))

\* the length checks of bootstrap's four-array arm
Boot4LengthsOk(a, ind_) ==
    IF ~ind_
    THEN Len(a[1]) = Len(a[2]) /\ Len(a[3]) = Len(a[4]) /\ Len(a[1]) = Len(a[3])
    ELSE ~(Len(a[1]) # Len(a[2]) \/ Len(a[3]) # Len(a[4]))

\* Uniform::new(0, high) asserts low < high
UniformOk(high) == 0 < high

\* bootstrap up to the fan-out: [panic, obs]
BootEnter(a, ind_) ==
    IF Len(a) = 2
    THEN IF ~Boot2LengthsOk(a, ind_) THEN [panic |-> "length", obs |-> <<>>]
         ELSE IF ~(UniformOk(Len(a[1])) /\ UniformOk(Len(a[2])))
         THEN [panic |-> "uniform", obs |-> <<>>]
         ELSE [panic |-> "", obs |-> BootObserved(Mean(a[1]), Mean(a[2]))]
    ELSE IF Len(a) = 4
    THEN IF ~Boot4LengthsOk(a, ind_) THEN [panic |-> "length", obs |-> <<>>]
         ELSE IF ~(UniformOk(Len(a[1])) /\ UniformOk(Len(a[3])))
         THEN [panic |-> "uniform", obs |-> <<>>]
         ELSE [panic |-> "", obs |-> BootObserved(Ratio(a[1], a[2]), Ratio(a[3], a[4]))]
    ELSE [panic |-> "arity", obs |-> <<>>]

\* bootstrap_vec up to the fan-out
BootVecEnter(a) ==
    IF ~UniformOk(Len(a[1])) THEN [panic |-> "uniform", obs |-> <<>>]
    ELSE [panic |-> "", obs |-> <<>>]

\* the part of an entry point that runs before (0..n_resamples).into_par_iter()
EnterOutcome(f, a, ind_) ==
    IF f = "bootstrap_vec" THEN BootVecEnter(a)
    ELSE IF f = "bootstrap" THEN BootEnter(a, ind_)
    ELSE PermEnter(a)

\* how many outputs of its generator one task consumes
DrawsNeeded(f, a, ind_) ==
    IF EnterOutcome(f, a, ind_).panic # "" THEN 0
    ELSE IF f = "bootstrap_vec" THEN Len(a[1])
    ELSE IF f = "bootstrap"
         THEN LET len_1 == Len(a[1])
                  len_2 == IF Len(a) = 2 THEN Len(a[2]) ELSE Len(a[3])
              IN  IF ind_ THEN 2 * Min(len_1, len_2) + Abs(len_1 - len_2)
                  ELSE Min(len_1, len_2)
    ELSE LET len_comb == IF Len(a) = 2 THEN Len(a[1]) + Len(a[2])
                         ELSE Len(a[1]) + Len(a[3])
         IN  IF len_comb > 1 THEN len_comb - 1 ELSE 0

\* the tail of permutation_test after collect(): [panic, ret]
PermAggregate(diffs, obs, c, n, ts) ==
    LET p == OneSidedP(PermCount(diffs, obs.observed_diff), n)
        q == quantile(diffs, <<LeftQ(c), RightQ(c)>>)
    IN  IF q.panic # "" THEN [panic |-> q.panic, ret |-> <<>>]
        ELSE [panic |-> "",
              ret |-> [p_value |-> ReturnedP(p, ts), uplift |-> obs.uplift,
                       observed_diff |-> obs.observed_diff, ci |-> q.v]]

\* the tail of bootstrap after collect(): [panic, ret]
BootAggregate(diffs, obs, c, n, ts) ==
    LET p == OneSidedP(BootCount(diffs), n)
        q == quantile(diffs, <<LeftQ(c), RightQ(c)>>)
    IN  IF q.panic # "" THEN [panic |-> q.panic, ret |-> <<>>]
        ELSE [panic |-> "",
              ret |-> [p_value |-> ReturnedP(p, ts), mean_1 |-> obs.mean_1,
                       mean_2 |-> obs.mean_2, uplift |-> obs.uplift, ci |-> q.v]]

AggregateOutcome(f, diffs, obs, c, n, ts) ==
    IF f = "bootstrap_vec" THEN [panic |-> "", ret |-> [dist |-> diffs]]
    ELSE IF f = "bootstrap" THEN BootAggregate(diffs, obs, c, n, ts)
    ELSE PermAggregate(diffs, obs, c, n, ts)

\* ------------------------------------------------------------------ bounds

MaxLen == 2
MaxTotal == 4
MaxArity == 4
MaxResamples == 2
RawMax == 1

\* element values of the input samples
Vals == {0, 1}

Samples == UNION {[1..l -> Vals] : l \in 0..MaxLen}

RECURSIVE Total(_)
Total(a) == IF a = <<>> THEN 0 ELSE Len(a[Len(a)]) + Total(SubSeq(a, 1, Len(a) - 1))

ArgLists == UNION {{a \in [1..r -> Samples] : Total(a) <= MaxTotal} : r \in 0..MaxArity}

\* confidence_level = 0.95, the signature's default
ConfLevels == {Frac(19, 20)}

\* ------------------------------------------------------------------- state

VARIABLES
    fn,                \* the entry point called
    args,              \* its samples
    confidence_level, n_resamples, ind, two_sided,
    xoshiro,           \* seed -> the outputs Xoshiro256PlusPlus::seed_from_u64(seed) yields
    pc,                \* "call", "fanout", "returned", "panicked"
    err,               \* which panic
    observed,          \* the statistics computed before the fan-out
    task,              \* resample index -> "idle", "running", "done"
    slot,              \* resample index -> the value its task produced
    order,             \* the resample indices in the order their tasks completed
    acc,               \* the unchecked accesses made so far
    drawn,             \* resample index -> the indices its task used for each group, in order
    ub,                \* an unchecked access fell outside its array
    ret,               \* the returned tuple
    fcall, fret        \* a direct call of a pure function, and its result

cvars == <<fn, args, confidence_level, n_resamples, ind, two_sided, xoshiro, pc, err,
           observed, task, slot, order, acc, drawn, ub, ret>>

fvars == <<fcall, fret>>

vars == <<cvars, fvars>>

Tasks == 0..(n_resamples - 1)

Seeds(n) == {Seed(i) : i \in 0..(n - 1)}

Init ==
    /\ fn \in {"permutation_test", "bootstrap", "bootstrap_vec"}
    /\ args \in ArgLists
    /\ fn = "bootstrap_vec" => Len(args) = 1
    /\ ind \in BOOLEAN
    /\ fn # "bootstrap" => ind
    /\ two_sided \in BOOLEAN
    /\ fn = "bootstrap_vec" => two_sided
    /\ confidence_level \in ConfLevels
    /\ fn = "bootstrap_vec" => confidence_level = Frac(19, 20)
    /\ n_resamples \in 0..MaxResamples
    /\ xoshiro \in [Seeds(n_resamples) -> [1..DrawsNeeded(fn, args, ind) -> 0..RawMax]]
    /\ pc = "call"
    /\ err = ""
    /\ observed = <<>>
    /\ task = [i \in Tasks |-> "idle"]
    /\ slot = [i \in Tasks |-> NaN]
    /\ order = <<>>
    /\ acc = {}
    /\ drawn = [i \in Tasks |-> [i1 |-> <<>>, i2 |-> <<>>]]
    /\ ub = FALSE
    /\ ret = <<>>
    /\ fcall = [op |-> "none"]
    /\ fret = <<>>

\* the entry point up to the fan-out: arity match, length checks, observed
\* statistics, Uniform::new
Enter ==
    /\ pc = "call"
    /\ LET e == EnterOutcome(fn, args, ind)
       IN  /\ pc' = IF e.panic # "" THEN "panicked" ELSE "fanout"
           /\ err' = e.panic
           /\ observed' = e.obs
    /\ UNCHANGED <<fn, args, confidence_level, n_resamples, ind, two_sided, xoshiro,
                   task, slot, order, acc, drawn, ub, ret, fvars>>

\* a worker picks up resample i
TaskStart(i) ==
    /\ pc = "fanout"
    /\ task[i] = "idle"
    /\ task' = [task EXCEPT ![i] = "running"]
    /\ UNCHANGED <<fn, args, confidence_level, n_resamples, ind, two_sided, xoshiro,
                   pc, err, observed, slot, order, acc, drawn, ub, ret, fvars>>

\* what a task's closure may yield: its value, or anything once an unchecked
\* read left its array
Yields(body) ==
    IF \E a \in body.accs : ~(0 <= a.idx /\ a.idx < a.len)
    THEN {NaN, F(0), F(1)}
    ELSE {body.val}

\* SlotOf by completion order instead of by resample index
SlotOfCompletion(i, done) == done

\* where collect() puts the value of resample i
SlotOf(i, done) == i

\* resample i runs to completion on its own generator
TaskFinish(i) ==
    /\ pc = "fanout"
    /\ task[i] = "running"
    /\ LET body == TaskBody(fn, args, ind, xoshiro[Seed(i)])
       IN  /\ \E v \in Yields(body) :
                slot' = [slot EXCEPT ![SlotOf(i, Len(order))] = v]
           /\ acc' = acc \cup body.accs
           /\ drawn' = [drawn EXCEPT ![i] = [i1 |-> body.i1, i2 |-> body.i2]]
           /\ ub' = (ub \/ \E a \in body.accs : ~(0 <= a.idx /\ a.idx < a.len))
    /\ task' = [task EXCEPT ![i] = "done"]
    /\ order' = Append(order, i)
    /\ UNCHANGED <<fn, args, confidence_level, n_resamples, ind, two_sided, xoshiro,
                   pc, err, observed, ret, fvars>>

\* collect() returns once every task has completed
Barrier == \A i \in Tasks : task[i] = "done"

\* the collected vector, in resample order
Collected == [j \in 1..n_resamples |-> slot[j - 1]]

\* collect(), then the p-value, the quantiles and the return
Aggregate ==
    /\ pc = "fanout"
    /\ Barrier
    /\ LET r == AggregateOutcome(fn, Collected, observed, confidence_level,
                                 n_resamples, two_sided)
       IN  /\ pc' = IF r.panic # "" THEN "panicked" ELSE "returned"
           /\ err' = r.panic
           /\ ret' = r.ret
    /\ UNCHANGED <<fn, args, confidence_level, n_resamples, ind, two_sided, xoshiro,
                   observed, task, slot, order, acc, drawn, ub, fvars>>

Next ==
    \/ Enter
    \/ \E i \in Tasks : TaskStart(i)
    \/ \E i \in Tasks : TaskFinish(i)
    \/ Aggregate

Spec == Init /\ [][Next]_vars

\* --------------------------------------------- direct calls of the helpers

MaxBinomN == 8
MaxDist == 3
QDen == 4
MaxCount == 8
MaxGroup == 2

\* values of a distribution handed to quantile()
QVals == {F(0), F(1), F(3), Inf(FALSE), Inf(TRUE), NaN}

Dists == UNION {[1..l -> QVals] : l \in 0..MaxDist}

\* quantiles and confidence levels k/QDen in [0, 1]
Grid == {Frac(k, QDen) : k \in 0..QDen}

\* element values of the groups handed to permutation_test
GVals == {-1, 0, 1, 2}

Groups == UNION {[1..l -> GVals] : l \in 0..MaxGroup}

\* the direct calls: an operation with its arguments
FnCalls ==
    {[op |-> "binom", n |-> n, k |-> k] : n \in 0..MaxBinomN, k \in 0..MaxBinomN}
    \cup {[op |-> "quantile", self |-> self, q |-> q] : self \in Dists, q \in Grid}
    \cup {[op |-> "interval", self |-> self, c |-> c] : self \in Dists, c \in Grid}
    \cup {[op |-> "p_value", n |-> n, count |-> count, ts |-> ts] :
             n \in 0..MaxCount, count \in 0..MaxCount, ts \in BOOLEAN}
    \cup {[op |-> "observed", a |-> a, b |-> b] : a \in Groups, b \in Groups}

InitFn ==
    /\ fn = "none"
    /\ args = <<>>
    /\ ind = TRUE
    /\ two_sided = TRUE
    /\ confidence_level = Frac(19, 20)
    /\ n_resamples = 0
    /\ xoshiro = <<>>
    /\ pc = "call"
    /\ err = ""
    /\ observed = <<>>
    /\ task = <<>>
    /\ slot = <<>>
    /\ order = <<>>
    /\ acc = {}
    /\ drawn = <<>>
    /\ ub = FALSE
    /\ ret = <<>>
    /\ fcall \in FnCalls
    /\ fcall.op = "binom" => fcall.k <= fcall.n
    /\ fcall.op = "p_value" => fcall.count <= fcall.n
    /\ fret = <<>>

Returns(v) ==
    /\ pc = "call"
    /\ pc' = "returned"
    /\ fret' = v
    /\ UNCHANGED <<fn, args, confidence_level, n_resamples, ind, two_sided, xoshiro, err,
                   observed, task, slot, order, acc, drawn, ub, ret, fcall>>

\* binom(n, k)
BinomCall ==
    /\ fcall.op = "binom"
    /\ Returns(binom(fcall.n, fcall.k))

\* self.quantile(&[q])
QuantileCall ==
    /\ fcall.op = "quantile"
    /\ Returns(quantile(fcall.self, <<fcall.q>>))

\* the confidence interval of an entry point: quantile(&[left_q, right_q])
IntervalCall ==
    /\ fcall.op = "interval"
    /\ Returns(quantile(fcall.self, <<LeftQ(fcall.c), RightQ(fcall.c)>>))

\* the p-value an entry point returns for `count` counted resamples out of n
PValueCall ==
    /\ fcall.op = "p_value"
    /\ Returns([p |-> OneSidedP(fcall.count, fcall.n),
                p_value |-> ReturnedP(OneSidedP(fcall.count, fcall.n), fcall.ts)])

\* permutation_test on two groups, up to the fan-out
ObservedCall ==
    /\ fcall.op = "observed"
    /\ Returns(PermEnter(<<fcall.a, fcall.b>>).obs)

NextFn ==
    \/ BinomCall
    \/ QuantileCall
    \/ IntervalCall
    \/ PValueCall
    \/ ObservedCall

SpecFn == InitFn /\ [][NextFn]_vars

\* ------------------------------------------------- properties, direct calls

Returned(op) == pc = "returned" /\ fcall.op = op

\* -1, 0, 1: the sign of a value that is not NaN
Sgn(a) == IF IsZero(a) THEN 0 ELSE IF a.neg THEN -1 ELSE 1

AllFinite(s) == \A i \in 1..Len(s) : IsFinite(s[i])

\* the least and the greatest element of a non-empty sequence without NaN
MinOf(s) == CHOOSE m \in {s[i] : i \in 1..Len(s)} : \A i \in 1..Len(s) : Cmp(m, s[i]) <= 0

MaxOf(s) == CHOOSE m \in {s[i] : i \in 1..Len(s)} : \A i \in 1..Len(s) : Cmp(m, s[i]) >= 0

\* the second-smallest element of a sequence of two or more elements
SecondOf(s) == SortF(s)[2]

\* C2 as stated: the two-sided p_value is min(2p, 2 - 2p) of the one-sided
\* p = (count + 1) / (n_resamples + 1), and for every count in 0..n_resamples
\* it satisfies p_value <= 1 and p_value >= 2p - 1.
C2_TwoSidedBounds ==
    (Returned("p_value") /\ fcall.ts /\ fcall.n >= 1) =>
        /\ fret.p = Frac(fcall.count + 1, fcall.n + 1)
        /\ FEq(fret.p_value, FMin(FMul(F(2), fret.p), FSub(F(2), FMul(F(2), fret.p))))
        /\ FLe(fret.p_value, F(1))
        /\ FLe(FSub(FMul(F(2), fret.p), F(1)), fret.p_value)

\* C2 amended: the two-sided p_value is min(2p, 2 - 2p), it is at most 1, and
\* it is at least 2p - 1 exactly when p <= 3/4; for p > 3/4 it lies below 2p - 1.
C2_TwoSidedBoundsAmended ==
    (Returned("p_value") /\ fcall.ts /\ fcall.n >= 1) =>
        /\ fret.p = Frac(fcall.count + 1, fcall.n + 1)
        /\ FEq(fret.p_value, FMin(FMul(F(2), fret.p), FSub(F(2), FMul(F(2), fret.p))))
        /\ FLe(fret.p_value, F(1))
        /\ FLe(FSub(FMul(F(2), fret.p), F(1)), fret.p_value) <=> FLe(fret.p, Frac(3, 4))

\* C2 witness: a two-sided call at p = 1/2, where the p_value reaches 1
C2_Witness ==
    /\ Returned("p_value") /\ fcall.ts
    /\ fcall.n = 3 /\ fcall.count = 1
    /\ fret.p_value = F(1)

\* C6 as stated: for two non-empty groups with non-zero means, swapping the
\* groups negates observed_diff and flips the sign of uplift.
C6_SwapNegates ==
    (/\ Returned("observed")
     /\ fcall.a # <<>> /\ fcall.b # <<>>
     /\ ~IsZero(Mean(fcall.a)) /\ ~IsZero(Mean(fcall.b))) =>
        LET swapped == PermEnter(<<fcall.b, fcall.a>>).obs
        IN  /\ FEq(swapped.observed_diff, FNeg(fret.observed_diff))
            /\ Sgn(swapped.uplift) = -Sgn(fret.uplift)

\* C6 amended: for two non-empty groups with non-zero means, swapping the
\* groups negates observed_diff; it flips the sign of uplift when the two means
\* have the same sign, and when they have opposite signs uplift is negative
\* for both orders.
C6_SwapNegatesAmended ==
    (/\ Returned("observed")
     /\ fcall.a # <<>> /\ fcall.b # <<>>
     /\ ~IsZero(Mean(fcall.a)) /\ ~IsZero(Mean(fcall.b))) =>
        LET swapped == PermEnter(<<fcall.b, fcall.a>>).obs
        IN  /\ FEq(swapped.observed_diff, FNeg(fret.observed_diff))
            /\ Sgn(Mean(fcall.a)) = Sgn(Mean(fcall.b))
                   => Sgn(swapped.uplift) = -Sgn(fret.uplift)
            /\ Sgn(Mean(fcall.a)) # Sgn(Mean(fcall.b))
                   => Sgn(swapped.uplift) = -1 /\ Sgn(fret.uplift) = -1

\* C6 witness: groups [1] and [2, 2]: observed_diff 1 and uplift 1
C6_Witness ==
    /\ Returned("observed")
    /\ fcall.a = <<1>> /\ fcall.b = <<2, 2>>
    /\ fret.observed_diff = F(1) /\ fret.uplift = F(1)

\* C7 as stated: binom(n, k) == binom(n, n - k) for all n >= k >= 0, and
\* binom(n, 0) == 1 for all n >= 0.
C7_BinomSymmetric ==
    Returned("binom") =>
        /\ FEq(fret, binom(fcall.n, fcall.n - fcall.k))
        /\ fcall.k = 0 => FEq(fret, F(1))

\* C8 as stated: for every non-empty distribution, in any order, the quantile
\* estimator returns the single element of a singleton at q = 0.5, the minimum
\* at q = 0.0 and the maximum at q = 1.0.
C8_QuantileEnds ==
    (Returned("quantile") /\ fcall.self # <<>> /\ ~HasNaN(fcall.self)) =>
        /\ fret.panic = ""
        /\ (Len(fcall.self) = 1 /\ fcall.q = Frac(1, 2)) => fret.v = fcall.self
        /\ fcall.q = F(0) => fret.v = <<MinOf(fcall.self)>>
        /\ fcall.q = F(1) => fret.v = <<MaxOf(fcall.self)>>

\* What quantile() does return at the ends, for every non-empty distribution
\* without NaN, in any order: the single element of a singleton at q = 0.5, the
\* maximum at q = 1.0, and at q = 0.0 the minimum when the distribution has one
\* element or its second-smallest element is finite, NaN (from 0.0 * inf in the
\* interpolation) when the second-smallest element is infinite.
QuantileEndsExceptInfinite ==
    (Returned("quantile") /\ fcall.self # <<>> /\ ~HasNaN(fcall.self)) =>
        /\ fret.panic = ""
        /\ (Len(fcall.self) = 1 /\ fcall.q = Frac(1, 2)) => fret.v = fcall.self
        /\ fcall.q = F(1) => fret.v = <<MaxOf(fcall.self)>>
        /\ fcall.q = F(0) =>
              IF Len(fcall.self) = 1 \/ IsFinite(SecondOf(fcall.self))
              THEN fret.v = <<MinOf(fcall.self)>>
              ELSE fret.v = <<NaN>>

\* the interval quantile() yields over distribution s at confidence level c
IntervalAt(s, c) == quantile(s, <<LeftQ(c), RightQ(c)>>).v

Width(iv) == FSub(iv[2], iv[1])

\* the interval `outer` contains the interval `inner` and is at least as wide
Widens(inner, outer) ==
    /\ FLe(outer[1], inner[1])
    /\ FLe(inner[2], outer[2])
    /\ FLe(Width(inner), Width(outer))

\* C9 as stated: for a fixed resample distribution the returned interval is
\* monotone in confidence_level over [0, 1]: for c1 <= c2 the interval for c2
\* contains the interval for c1 and its width is not smaller.
C9_IntervalMonotone ==
    (Returned("interval") /\ fret.panic = "" /\ ~HasNaN(fcall.self)) =>
        \A c2 \in Grid :
            FLe(fcall.c, c2) => Widens(fret.v, IntervalAt(fcall.self, c2))

\* Over a distribution of finite values the interval is monotone in
\* confidence_level: for c1 <= c2 the interval for c2 contains the interval for
\* c1 and its width is not smaller.
IntervalMonotoneOnFinite ==
    (Returned("interval") /\ fret.panic = "" /\ AllFinite(fcall.self)) =>
        \A c2 \in Grid :
            FLe(fcall.c, c2) => Widens(fret.v, IntervalAt(fcall.self, c2))


\* ------------------------------------------- properties, the entry points

EntryPoint == fn \in {"permutation_test", "bootstrap"}

\* the resamples the aggregation counts
Counted ==
    IF fn = "bootstrap" THEN BootCount(Collected)
    ELSE PermCount(Collected, observed.observed_diff)

InUnit(x) == FLe(F(0), x) /\ FLe(x, F(1))

\* C1: for every valid input the p_value returned by permutation_test and by
\* bootstrap lies in [0, 1]: with c the number of resamples counted,
\* 0 <= c <= n_resamples, the one-sided (c + 1) / (n_resamples + 1) and the
\* two-sided min(2 - 2p, 2p) are both within [0, 1].
C1_PValueInUnitInterval ==
    (pc = "returned" /\ EntryPoint) =>
        LET p == Frac(Counted + 1, n_resamples + 1)
        IN  /\ Counted \in 0..n_resamples
            /\ InUnit(ret.p_value)
            /\ two_sided => FEq(ret.p_value, FMin(FSub(F(2), FMul(F(2), p)), FMul(F(2), p)))
            /\ ~two_sided => ret.p_value = p

\* C1 witness: a one-sided bootstrap whose two resamples are both counted
C1_Witness ==
    /\ pc = "returned" /\ fn = "bootstrap" /\ ~two_sided
    /\ n_resamples = 2 /\ Counted = 2
    /\ ret.p_value = F(1)

\* a call the entry point must reject: wrong arity, a ratio pair of unequal
\* lengths, or paired groups of unequal length
StructurallyInvalid ==
    \/ Len(args) \notin {2, 4}
    \/ Len(args) = 4 /\ (Len(args[1]) # Len(args[2]) \/ Len(args[3]) # Len(args[4]))
    \/ /\ fn = "bootstrap" /\ ~ind
       /\ \/ Len(args) = 2 /\ Len(args[1]) # Len(args[2])
          \/ Len(args) = 4 /\ Len(args[1]) # Len(args[3])

NoTaskStarted == (\A i \in Tasks : task[i] = "idle") /\ order = <<>> /\ acc = {}

\* C3: in permutation_test and bootstrap every structurally invalid call ends
\* in a fatal error, raised before any resample task has started: no state has
\* a task that ran and an arity or length-mismatch error.
C3_ValidationBeforeFanOut ==
    EntryPoint =>
        /\ (StructurallyInvalid /\ pc # "call") =>
               pc = "panicked" /\ err \in {"arity", "length"}
        /\ (pc = "panicked" /\ err \in {"arity", "length"}) =>
               StructurallyInvalid /\ NoTaskStarted

\* C3 witness: a paired bootstrap of two groups of unequal length has panicked
C3_Witness ==
    /\ fn = "bootstrap" /\ ~ind /\ Len(args) = 2
    /\ Len(args[1]) # Len(args[2])
    /\ n_resamples > 0
    /\ pc = "panicked" /\ err = "length"

\* numerically degenerate input: a zero-length sample, a zero denominator sum,
\* or a zero baseline mean or ratio
Degenerate ==
    \/ \E j \in 1..Len(args) : args[j] = <<>>
    \/ Len(args) = 4 /\ (IsZero(SumOf(args[2])) \/ IsZero(SumOf(args[4])))
    \/ Len(args) = 2 /\ IsZero(Mean(args[1]))
    \/ Len(args) = 4 /\ IsZero(Ratio(args[1], args[2]))

StructurallyValid ==
    IF fn = "bootstrap_vec" THEN Len(args) = 1 ELSE ~StructurallyInvalid

\* C4 as stated: numerically degenerate but structurally valid input is never
\* rejected by permutation_test, bootstrap or bootstrap_vec: the call completes
\* and returns, rather than ending in an error or abort.
C4_DegenerateNotRejected ==
    (Degenerate /\ StructurallyValid /\ n_resamples >= 1) => pc # "panicked"

\* the value resample i yields on its own generator
Expected(i) == TaskBody(fn, args, ind, xoshiro[Seed(i)]).val

\* the distribution of the resamples in index order
ExpectedDist == [j \in 1..n_resamples |-> Expected(j - 1)]

Aggregated == pc = "returned" \/ (pc = "panicked" /\ err \in {"unwrap", "index"})

\* C5: the resample tasks may start and complete in any order; each derives
\* its seed from its own index alone and shares no state, so the collected
\* distribution, and with it the returned p_value and interval, is the same
\* for every schedule, and aggregation starts only after all tasks completed.
C5_ScheduleIndependent ==
    Aggregated =>
        /\ \A i \in Tasks : task[i] = "done"
        /\ Collected = ExpectedDist
        /\ LET r == AggregateOutcome(fn, ExpectedDist, observed, confidence_level,
                                     n_resamples, two_sided)
           IN  /\ err = r.panic
               /\ pc = "returned" => ret = r.ret

\* C5 witness: resample 1 completed before resample 0, their values differ,
\* and the call has returned
C5_Witness ==
    /\ pc = "returned" /\ EntryPoint
    /\ order = <<1, 0>>
    /\ slot[0] # slot[1]

\* C10: in every resample task each index used for an unchecked access is
\* >= 0 and below the length of the array it indexes, also where an index
\* drawn from one array's range is applied to the denominator or paired array.
C10_UncheckedInBounds ==
    /\ ~ub
    /\ \A a \in acc : 0 <= a.idx /\ a.idx < a.len

\* C10 witness: a paired bootstrap applied the shared index 1, drawn from
\* group 1's range, to group 2
C10_Witness ==
    /\ fn = "bootstrap" /\ ~ind /\ Len(args) = 2
    /\ \E a \in acc : a.arr = "args[1]" /\ a.idx = 1

\* the lengths of the two groups of a bootstrap call
GroupLen1 == Len(args[1])

GroupLen2 == IF Len(args) = 2 THEN Len(args[2]) ELSE Len(args[3])

\* the extra draws a group of length mine gets next to one of length other
ExtraDraws(mine, other) == IF mine > other THEN mine - other ELSE 0

\* C11: in bootstrap with ind = true every completed resample used, for each
\* group, min(len_1, len_2) draws plus |len_1 - len_2| extra draws for the
\* larger group only, so the draws summed into a group number that group's
\* length and the smaller group gets no extra draw; with ind = false it used
\* exactly len draws, the same index for both groups at each position.
C11_DrawCounts ==
    (fn = "bootstrap" /\ pc \in {"fanout", "returned", "panicked"}
                      /\ err \notin {"arity", "length", "uniform"}) =>
        \A i \in Tasks : task[i] = "done" =>
            LET d == drawn[i]
                min_len == Min(GroupLen1, GroupLen2)
            IN  IF ind
                THEN /\ Len(d.i1) = min_len + ExtraDraws(GroupLen1, GroupLen2)
                     /\ Len(d.i2) = min_len + ExtraDraws(GroupLen2, GroupLen1)
                     /\ Len(d.i1) = GroupLen1
                     /\ Len(d.i2) = GroupLen2
                     /\ GroupLen1 <= GroupLen2 => Len(d.i1) = min_len
                     /\ GroupLen2 <= GroupLen1 => Len(d.i2) = min_len
                ELSE /\ Len(d.i1) = GroupLen1
                     /\ GroupLen1 = GroupLen2
                     /\ d.i2 = d.i1

\* C11 witness: an independent bootstrap over groups of lengths 1 and 2
\* completed a resample with one draw for group 1 and two for group 2, the
\* second of them an extra draw
C11_Witness ==
    /\ fn = "bootstrap" /\ ind /\ Len(args) = 2
    /\ Len(args[1]) = 1 /\ Len(args[2]) = 2
    /\ \E i \in Tasks :
          /\ task[i] = "done"
          /\ Len(drawn[i].i1) = 1
          /\ Len(drawn[i].i2) = 2
          /\ drawn[i].i2[2] = 1

====
